---------------------------- MODULE Spec2Model ----------------------------
(***************************************************************************)
(* Physics core of rusty-planets: World::new_from_json, the stable-orbit   *)
(* initializer, Body/Star tick and set, and the two-phase update closure   *)
(* of the event loop.                                                      *)
(*                                                                         *)
(* Numbers.  The program computes in f64.  The model computes in integers  *)
(* extended with the IEEE special values the code can produce (NaN, +Inf,  *)
(* -Inf); division and square root round toward zero.  Quantities are in   *)
(* model units (length, mass and time units chosen so that the values are  *)
(* small integers).  Rotations are drawn from the quarter turns, for which *)
(* the rotation matrix has integer entries.                                *)
(***************************************************************************)
EXTENDS Integers, Sequences, FiniteSets, TLC

VARIABLES
    pc,         \* position of the program: "start", "err", "panic", "idle", "tick", "set"
    entities,   \* world.entities
    frames,     \* the Vec of PhysicsFrame being collected by the update closure
    k,          \* number of entities already committed by the apply loop
    elapsed,    \* the dt of the step in progress
    input,      \* history: the deserialized input the World was built from
    calls,      \* history: one record per Body::new_stable_orbit call, in entity order
    built,      \* history: world.entities as constructed
    pre,        \* history: world.entities when the step in progress began
    counted,    \* history: per tick of the step, the indices that were accumulated
    steps,      \* history: number of steps begun
    clock       \* history: sum of the dt of the steps begun

vars == <<pc, entities, frames, k, elapsed, input, calls, built, pre, counted, steps, clock>>

-----------------------------------------------------------------------------
(* Bounds of the model *)

MaxBodies == 3      \* body parameter records in one input
MaxSteps == 2       \* update events delivered

\* the values of args.dt delivered, in units of min_step
ArgsDt == {0, 2}

-----------------------------------------------------------------------------
(* f64 arithmetic: finite values, NaN, +Inf and -Inf *)

Fin(n) == [c |-> "fin", v |-> n]
NaN == [c |-> "nan", v |-> 0]
Inf(s) == [c |-> "inf", v |-> s]
Zero == Fin(0)

IsFinite(a) == a.c = "fin"
Sign(n) == IF n < 0 THEN -1 ELSE 1
Abs(n) == IF n < 0 THEN -n ELSE n

\* integer quotient rounded toward zero
TruncDiv(a, b) == Sign(a) * Sign(b) * (Abs(a) \div Abs(b))

\* floor of the square root of n >= 0
RECURSIVE ISqrt(_)
ISqrt(n) ==
    IF n < 2 THEN n
    ELSE LET s == 2 * ISqrt(n \div 4)
         IN  IF (s + 1) * (s + 1) <= n THEN s + 1 ELSE s

FNeg(a) == IF a.c = "nan" THEN NaN ELSE [c |-> a.c, v |-> -a.v]

FAdd(a, b) ==
    IF a.c = "fin" /\ b.c = "fin" THEN Fin(a.v + b.v)
    ELSE IF a.c = "nan" \/ b.c = "nan" THEN NaN
    ELSE IF a.c = "inf" /\ b.c = "inf" THEN (IF a.v = b.v THEN a ELSE NaN)
    ELSE IF a.c = "inf" THEN a
    ELSE IF b.c = "inf" THEN b
    ELSE Fin(a.v + b.v)

FSub(a, b) == FAdd(a, FNeg(b))

FMul(a, b) ==
    IF a.c = "fin" /\ b.c = "fin" THEN Fin(a.v * b.v)
    ELSE IF a.c = "nan" \/ b.c = "nan" THEN NaN
    ELSE IF a.c = "inf" \/ b.c = "inf"
         THEN (IF a.v = 0 \/ b.v = 0 THEN NaN ELSE Inf(Sign(a.v) * Sign(b.v)))
    ELSE Fin(a.v * b.v)

FDiv(a, b) ==
    IF a.c = "fin" /\ b.c = "fin" /\ b.v # 0 THEN Fin(TruncDiv(a.v, b.v))
    ELSE IF a.c = "nan" \/ b.c = "nan" THEN NaN
    ELSE IF a.c = "inf" THEN (IF b.c = "inf" THEN NaN ELSE Inf(a.v * Sign(b.v)))
    ELSE IF b.c = "inf" THEN Zero
    ELSE IF b.v = 0 THEN (IF a.v = 0 THEN NaN ELSE Inf(Sign(a.v)))
    ELSE Fin(TruncDiv(a.v, b.v))

FSqrt(a) ==
    IF a.c = "nan" THEN NaN
    ELSE IF a.c = "inf" THEN (IF a.v > 0 THEN a ELSE NaN)
    ELSE IF a.v < 0 THEN NaN
    ELSE Fin(ISqrt(a.v))

(* Vector2 / Point2 *)

Vec(x, y) == <<Fin(x), Fin(y)>>
VAdd(a, b) == <<FAdd(a[1], b[1]), FAdd(a[2], b[2])>>
VSub(a, b) == <<FSub(a[1], b[1]), FSub(a[2], b[2])>>
VScale(s, a) == <<FMul(s, a[1]), FMul(s, a[2])>>
NormSquared(a) == FAdd(FMul(a[1], a[1]), FMul(a[2], a[2]))
Norm(a) == FSqrt(NormSquared(a))
Normalize(a) == LET n == Norm(a) IN <<FDiv(a[1], n), FDiv(a[2], n)>>
VFinite(a) == IsFinite(a[1]) /\ IsFinite(a[2])

\* cosine and sine of q quarter turns
Cos4(q) == CASE q % 4 = 0 -> 1 [] q % 4 = 1 -> 0 [] q % 4 = 2 -> -1 [] OTHER -> 0
Sin4(q) == CASE q % 4 = 0 -> 0 [] q % 4 = 1 -> 1 [] q % 4 = 2 -> 0 [] OTHER -> -1

\* Rotation2::new(q * pi/2) * a
Rotate(q, a) ==
    <<FSub(FMul(Fin(Cos4(q)), a[1]), FMul(Fin(Sin4(q)), a[2])),
      FAdd(FMul(Fin(Sin4(q)), a[1]), FMul(Fin(Cos4(q)), a[2]))>>

-----------------------------------------------------------------------------
(* Program constants, in model units: the length unit makes X_SIZE (5e9 in   *)
(* the source) 40, the time unit is min_step, and the mass unit makes G       *)
(* (6.67430e-11 in the source) 5.                                             *)

G == 5
X_SIZE == 40
Y_SIZE == X_SIZE
min_step == 1

\* the values rand::thread_rng().gen_range(0.0, 2.0) is drawn from, in half units
\* (period = q / 2, so the angle pi * period is q quarter turns)
Periods == 0 .. 3


-----------------------------------------------------------------------------
(* Input: the deserialized WorldParams.  id and parent_id are #[serde(skip)] *)
(* and so hold usize::default() = 0 after deserialization.                   *)

BodyParams(m, h, d, cs) ==
    [id |-> 0, parent_id |-> 0, diameter |-> d, mass |-> m, height |-> h, children |-> cs]

StarRecords == {BodyParams(8, 0, 4, <<>>)}
LeafRecords == {BodyParams(1, 1, 1, <<>>), BodyParams(2, 2, 2, <<>>)}

SeqsOfLen(S, n) == [1 .. n -> S]

\* planet records with exactly c children
PlanetRecords(c) ==
    {[r EXCEPT !.children = cs] : r \in LeafRecords, cs \in SeqsOfLen(LeafRecords, c)}

\* sequences of planet records holding at most n records, children included
RECURSIVE PlanetSeqs(_)
PlanetSeqs(n) ==
    IF n = 0 THEN {<<>>}
    ELSE {<<>>} \cup
         UNION {{<<p>> \o rest : p \in PlanetRecords(c), rest \in PlanetSeqs(n - 1 - c)} :
                    c \in 0 .. (n - 1)}

\* serde_json::from_str(&input): Ok(WorldParams) when ok, Err otherwise
WorldParams ==
    UNION {{[ok |-> TRUE, stars |-> ss, planets |-> ps] :
                ss \in SeqsOfLen(StarRecords, s), ps \in PlanetSeqs(MaxBodies - s)} :
           s \in 0 .. MaxBodies}
Malformed == [ok |-> FALSE, stars |-> <<>>, planets |-> <<>>]
NoInput == [ok |-> FALSE, stars |-> <<>>, planets |-> <<>>, none |-> TRUE]
\* an input whose star record lacks a required field (mass has no serde default)
MissingField ==
    [ok |-> FALSE, stars |-> <<BodyParams(8, 0, 4, <<>>)>>, planets |-> <<>>,
     missing |-> "mass"]
\* inputs with records below the first level of children: a star record with
\* a child, and a planet record whose child has a child of its own
NestedParams ==
    {[ok |-> TRUE, stars |-> <<[st EXCEPT !.children = <<c>>]>>, planets |-> <<>>] :
        st \in StarRecords, c \in LeafRecords}
    \cup {[ok |-> TRUE, stars |-> <<st>>,
           planets |-> <<[p EXCEPT !.children = <<[c EXCEPT !.children = <<g>>]>>]>>] :
                st \in StarRecords, p \in LeafRecords, c \in LeafRecords, g \in LeafRecords}
Inputs == WorldParams \cup NestedParams \cup {Malformed, MissingField}

\* a from_str that accepts every input
FromStrAcceptsAll(in) == TRUE

\* serde_json::from_str::<WorldParams>(&input) is Ok: the text parses and every
\* record carries its required fields
FromStrOk(in) == in.ok

RECURSIVE NumOrbiting(_)
NumOrbiting(ps) ==
    IF ps = <<>> THEN 0 ELSE 1 + Len(Head(ps).children) + NumOrbiting(Tail(ps))

-----------------------------------------------------------------------------
(* Entities *)

\* Body::physics_data / Star::physics_data
PhysicsData(e) ==
    [velocity |-> e.velocity, position |-> e.position, mass |-> e.mass, size |-> e.size]

\* Star::new_from_params building an entity that dispatches to Body's tick and set
StarBuiltAsBody(star) ==
    [kind |-> "Body",
     id |-> star.id,
     parent_id |-> star.parent_id,
     position |-> <<FDiv(Fin(X_SIZE), Fin(2)), FDiv(Fin(Y_SIZE), Fin(2))>>,
     velocity |-> Vec(0, 0),
     mass |-> Fin(star.mass),
     size |-> Fin(star.diameter)]

\* Star::new_from_params
StarNewFromParams(star) ==
    [kind |-> "Star",
     id |-> star.id,
     position |-> <<FDiv(Fin(X_SIZE), Fin(2)), FDiv(Fin(Y_SIZE), Fin(2))>>,
     velocity |-> Vec(0, 0),
     mass |-> Fin(star.mass),
     size |-> Fin(star.diameter)]

\* the orbit offset of Body::new_stable_orbit: Rotation2::new(pi * period) * (height, 0)
OrbitVec(params, period) == Rotate(period, Vec(params.height, 0))

\* the velocity relative to the parent computed by Body::new_stable_orbit
OrbitVelocity(parent_physics, params, position) ==
    LET mu == FMul(Fin(G), FAdd(parent_physics.mass, Fin(params.mass)))
        f_vec == VSub(parent_physics.position, position)
    IN  VScale(FSqrt(FDiv(mu, Norm(f_vec))), Rotate(3, Normalize(f_vec)))

\* Body::new_stable_orbit without the line that adds the parent velocity
BodyNewStableOrbitAtRest(parent_physics, params, period) ==
    LET o_pos == parent_physics.position
        position == VAdd(o_pos, OrbitVec(params, period))
    IN  [kind |-> "Body",
         id |-> params.id,
         parent_id |-> params.parent_id,
         velocity |-> OrbitVelocity(parent_physics, params, position),
         position |-> position,
         size |-> Fin(params.diameter),
         mass |-> Fin(params.mass)]

\* Body::new_stable_orbit; period is the value drawn from rand::thread_rng()
BodyNewStableOrbit(parent_physics, params, period) ==
    LET o_pos == parent_physics.position
        position == VAdd(o_pos, OrbitVec(params, period))
        velocity == VAdd(parent_physics.velocity,
                         OrbitVelocity(parent_physics, params, position))
    IN  [kind |-> "Body",
         id |-> params.id,
         parent_id |-> params.parent_id,
         velocity |-> velocity,
         position |-> position,
         size |-> Fin(params.diameter),
         mass |-> Fin(params.mass)]

\* Planet::new_stable_orbit of planet.rs; period is given in quarter turns
\* (the angle is 2 * pi * period / 4) and id is the value drawn from
\* rand::thread_rng()
PlanetNewStableOrbit(other, height, period, mass, size, id) ==
    LET o_pos == other.position
        orbit_vec == Rotate(period, <<Fin(height), FDiv(Fin(height), Fin(2))>>)
        pos == VAdd(o_pos, orbit_vec)
        mu == FMul(Fin(G), FAdd(other.mass, Fin(mass)))
        f_vec == VSub(o_pos, pos)
        rot_unit == Rotate(3, Normalize(f_vec))
        v == FSqrt(FDiv(mu, Fin(height)))
        v_vec == VScale(v, rot_unit)
    IN  [kind |-> "Planet",
         id |-> id,
         velocity |-> VAdd(other.velocity, v_vec),
         position |-> pos,
         size |-> Fin(size),
         mass |-> Fin(mass)]

-----------------------------------------------------------------------------
(* World::new_from_json *)

\* the stars of new_from_json: star i (from 0) gets id i
BuildStars(stars) ==
    [i \in 1 .. Len(stars) |-> StarNewFromParams([stars[i] EXCEPT !.id = i - 1])]

\* One Body::new_stable_orbit call: its arguments, the period it drew, the body
\* it returned, and which record it was made for (planet number pn, child
\* number cn, 0 for the planet itself).
Call(parent_physics, params, period, pn, cn) ==
    [fn |-> "Body::new_stable_orbit",
     args |-> <<parent_physics, params>>,
     drawn |-> period,
     out |-> BodyNewStableOrbit(parent_physics, params, period),
     pn |-> pn, cn |-> cn]

\* The flat_map closure of new_from_json applied to planet p (number pn): the
\* planet is built around the first star with id = offset; the inner move
\* closure owns a copy of offset, so child j (from 1) gets id offset + j and
\* parent_id offset; the children come first, the planet last.
PlanetCalls(p, pn, star, offset, rng) ==
    LET this_params == [p EXCEPT !.id = offset, !.children = <<>>]
        this_call == Call(PhysicsData(star), this_params, rng[1], pn, 0)
        this == this_call.out
        parent_motion == PhysicsData(this)
    IN  [j \in 1 .. Len(p.children) |->
            Call(parent_motion,
                 [p.children[j] EXCEPT !.id = offset + j, !.parent_id = offset],
                 rng[1 + j], pn, j)]
        \o <<this_call>>

\* The flat_map over world_params.planets.  The outer closure only reads
\* offset (the inner closure increments its own copy), so every planet is
\* handed the same offset = stars.len().
RECURSIVE AllPlanetCalls(_, _, _, _, _)
AllPlanetCalls(planets, pn, star, offset, rng) ==
    IF planets = <<>> THEN <<>>
    ELSE LET p == Head(planets)
             used == 1 + Len(p.children)
         IN  PlanetCalls(p, pn, star, offset, rng)
             \o AllPlanetCalls(Tail(planets), pn + 1, star, offset,
                               SubSeq(rng, used + 1, Len(rng)))

\* world.entities of the Ok(World) returned by new_from_json
NewFromJsonCalls(world_params, rng) ==
    LET stars == BuildStars(world_params.stars)
    IN  AllPlanetCalls(world_params.planets, 1, stars[1], Len(stars), rng)

NewFromJsonEntities(world_params, rng) ==
    LET cs == NewFromJsonCalls(world_params, rng)
    IN  BuildStars(world_params.stars) \o [i \in 1 .. Len(cs) |-> cs[i].out]

-----------------------------------------------------------------------------
(* impl PhysicsBody for Body / for Star *)

Frame(velocity, position) == [velocity |-> velocity, position |-> position]

\* one pass of the loop body of Body::tick past the id test: the term added to dv
Gravity(self, e) ==
    LET physics == PhysicsData(e)
        mass == FAdd(physics.mass, self.mass)
        vec == VSub(physics.position, self.position)
        r_sq == NormSquared(vec)
    IN  VScale(FDiv(FMul(Fin(G), mass), r_sq), Normalize(vec))

\* Body::tick without the id test
NeverSkipped(self, e) == FALSE

\* the test `e.id() == id` that makes Body::tick skip an entry of others
Skipped(self, e) == e.id = self.id

\* the for loop of Body::tick from entry j of others on, dv being the sum so far
RECURSIVE Accumulate(_, _, _, _)
Accumulate(self, others, j, dv) ==
    IF j > Len(others) THEN dv
    ELSE IF Skipped(self, others[j]) THEN Accumulate(self, others, j + 1, dv)
    ELSE Accumulate(self, others, j + 1, VAdd(dv, Gravity(self, others[j])))

\* a Body::tick that moves the body by the velocity it has just computed
BodyTickByNewVelocity(self, others, dt) ==
    LET dv == Accumulate(self, others, 1, Vec(0, 0))
        velocity == VAdd(self.velocity, VScale(dt, dv))
    IN  Frame(velocity, VAdd(self.position, VScale(dt, velocity)))

\* Body::tick
BodyTick(self, others, dt) ==
    LET dv == Accumulate(self, others, 1, Vec(0, 0))
    IN  Frame(VAdd(self.velocity, VScale(dt, dv)),
              VAdd(self.position, VScale(dt, self.velocity)))

\* Body::set writing the frame's position into size as well
BodySetAndSize(self, f) ==
    [self EXCEPT !.position = f.position, !.velocity = f.velocity, !.size = f.position[1]]

\* Body::set
BodySet(self, f) == [self EXCEPT !.position = f.position, !.velocity = f.velocity]

\* Star::tick
StarTick(self, others, dt) == Frame(Vec(0, 0), self.position)

\* Star::set
StarSet(self, f) == self

\* dynamic dispatch of e.tick(..) and e.set(..) over Box<dyn Entity>
Tick(e, others, dt) ==
    IF e.kind = "Star" THEN StarTick(e, others, dt) ELSE BodyTick(e, others, dt)
Set(e, f) == IF e.kind = "Star" THEN StarSet(e, f) ELSE BodySet(e, f)

-----------------------------------------------------------------------------
(* The update closure of the event loop *)

\* elapsed: args.dt raised to min_step
Elapsed(args_dt) == IF args_dt < min_step THEN min_step ELSE args_dt

\* the others handed to tick for the entity at index i (from 1):
\* split_at(i - 1) gives (l, r) and l.iter().chain(r) runs over both halves
Others(es, i) == SubSeq(es, 1, i - 1) \o SubSeq(es, i, Len(es))

\* the entries of Others(es, i), as indices of es, that the tick of the entity
\* at index i does not skip
Counted(es, i) ==
    LET RECURSIVE From(_)
        From(j) == IF j > Len(es) THEN <<>>
                   ELSE IF Skipped(es[i], Others(es, i)[j]) THEN From(j + 1)
                   ELSE <<j>> \o From(j + 1)
    IN  From(1)

\* the frames Vec: tick of every entity against the same entities
Frames(es, dt) == [i \in 1 .. Len(es) |-> Tick(es[i], Others(es, i), dt)]

\* the apply loop: entities.iter_mut().zip(frames).map(|(e, f)| e.set(f))
Apply(es, fs) == [i \in 1 .. Len(es) |-> Set(es[i], fs[i])]

\* the closure without the collect: each frame is applied as soon as it is
\* computed, so later ticks read the bodies already committed
RECURSIVE TickAndSetFrom(_, _, _)
TickAndSetFrom(es, i, dt) ==
    IF i > Len(es) THEN es
    ELSE TickAndSetFrom([es EXCEPT ![i] = Set(@, Tick(es[i], Others(es, i), dt))], i + 1, dt)
UpdateInterleaved(es, dt) == TickAndSetFrom(es, 1, dt)

\* the closure as a whole: collect every frame, then apply them
UpdateResult(es, dt) == Apply(es, Frames(es, dt))

\* the apply loop starting as soon as one frame exists
CollectedEarly(fs, es) == Len(fs) >= 1 \/ Len(es) = 0

\* whether the frames Vec is complete, which is when collect() returns
Collected(fs, es) == Len(fs) = Len(es)

-----------------------------------------------------------------------------
(* Actions *)

Init ==
    /\ pc = "start"
    /\ entities = <<>>
    /\ frames = <<>>
    /\ k = 0
    /\ elapsed = Fin(0)
    /\ input = NoInput
    /\ calls = <<>>
    /\ built = <<>>
    /\ pre = <<>>
    /\ counted = <<>>
    /\ steps = 0
    /\ clock = 0

\* World::new_from_json(input) returns Err: from_str failed
NewFromJsonErr ==
    /\ pc = "start"
    /\ \E in \in Inputs :
        /\ ~FromStrOk(in)
        /\ input' = in
    /\ pc' = "err"
    /\ UNCHANGED <<entities, frames, k, elapsed, calls, built, pre, counted, steps, clock>>

\* World::new_from_json(input) panics: stars.get(0).unwrap() on an empty Vec
NewFromJsonPanic ==
    /\ pc = "start"
    /\ \E in \in Inputs :
        /\ FromStrOk(in)
        /\ Len(in.stars) = 0
        /\ input' = in
    /\ pc' = "panic"
    /\ UNCHANGED <<entities, frames, k, elapsed, calls, built, pre, counted, steps, clock>>

\* World::new_from_json(input) returns Ok(World)
NewFromJsonOk ==
    /\ pc = "start"
    /\ \E in \in Inputs :
        /\ FromStrOk(in)
        /\ Len(in.stars) > 0
        /\ \E rng \in SeqsOfLen(Periods, NumOrbiting(in.planets)) :
            /\ input' = in
            /\ calls' = NewFromJsonCalls(in, rng)
            /\ entities' = NewFromJsonEntities(in, rng)
            /\ built' = NewFromJsonEntities(in, rng)
    /\ pc' = "idle"
    /\ UNCHANGED <<frames, k, elapsed, pre, counted, steps, clock>>

\* event.update begins: elapsed is fixed and the frames Vec starts empty; with
\* no entities both loops run over nothing and the closure returns at once
UpdateBegin ==
    /\ pc = "idle"
    /\ steps < MaxSteps
    /\ \E args_dt \in ArgsDt :
        /\ elapsed' = Fin(Elapsed(args_dt))
        /\ clock' = clock + Elapsed(args_dt)
    /\ steps' = steps + 1
    /\ pre' = entities
    /\ frames' = <<>>
    /\ counted' = <<>>
    /\ k' = 0
    /\ pc' = IF Collected(frames', entities) THEN "idle" ELSE "tick"
    /\ UNCHANGED <<entities, input, calls, built>>

\* the map closure of the first loop, for the next entity
TickOne ==
    /\ pc = "tick"
    /\ LET i == Len(frames) + 1
       IN  /\ frames' = Append(frames, Tick(entities[i], Others(entities, i), elapsed))
           /\ counted' = Append(counted, Counted(entities, i))
    /\ pc' = IF Collected(frames', entities) THEN "set" ELSE "tick"
    /\ UNCHANGED <<entities, k, elapsed, input, calls, built, pre, steps, clock>>

\* the map closure of the apply loop, for the next entity
SetOne ==
    /\ pc = "set"
    /\ entities' = [entities EXCEPT ![k + 1] = Set(@, frames[k + 1])]
    /\ k' = k + 1
    /\ pc' = IF k' = Len(entities) THEN "idle" ELSE "set"
    /\ UNCHANGED <<frames, elapsed, input, calls, built, pre, counted, steps, clock>>

Next ==
    \/ NewFromJsonErr
    \/ NewFromJsonPanic
    \/ NewFromJsonOk
    \/ UpdateBegin
    \/ TickOne
    \/ SetOne

Spec == Init /\ [][Next]_vars

(* A World literal holding no entity or a single one, as main builds its World: *)
(* World { entities: vec![] } followed by at most one push.  The single entity  *)
(* is a Star, or a Body put into orbit around a star that is not pushed.        *)
SoloWorlds ==
    {<<>>}
    \cup {<<StarNewFromParams(st)>> : st \in StarRecords}
    \cup {<<BodyNewStableOrbit(PhysicsData(StarNewFromParams(st)), r, q)>> :
                st \in StarRecords, r \in LeafRecords, q \in Periods}

NewWorld ==
    /\ pc = "start"
    /\ \E es \in SoloWorlds :
        /\ entities' = es
        /\ built' = es
    /\ pc' = "idle"
    /\ UNCHANGED <<frames, k, elapsed, input, calls, pre, counted, steps, clock>>

NextSolo ==
    \/ NewWorld
    \/ UpdateBegin
    \/ TickOne
    \/ SetOne

SpecSolo == Init /\ [][NextSolo]_vars

(* The orbit initializers called twice on the same arguments *)

\* the bodies an initializer is handed as parent: a star, or a planet of a star
OrbitParents ==
    {StarNewFromParams(st) : st \in StarRecords}
    \cup {BodyNewStableOrbit(PhysicsData(StarNewFromParams(st)), r, q) :
                st \in StarRecords, r \in LeafRecords, q \in Periods}

IdDraws == 0 .. 2

BodyOrbitCall(parent, params, period) ==
    [fn |-> "Body::new_stable_orbit",
     args |-> <<PhysicsData(parent), params>>,
     drawn |-> period,
     out |-> BodyNewStableOrbit(PhysicsData(parent), params, period)]

PlanetOrbitCall(other, r, period, id) ==
    [fn |-> "Planet::new_stable_orbit",
     args |-> <<other, r.height, period, r.mass, r.diameter>>,
     drawn |-> id,
     out |-> PlanetNewStableOrbit(other, r.height, period, r.mass, r.diameter, id)]

\* a first call of Body::new_stable_orbit
BodyOrbitFirst ==
    /\ pc = "start"
    /\ \E parent \in OrbitParents, r \in LeafRecords, period \in Periods :
        calls' = <<BodyOrbitCall(parent, r, period)>>
    /\ pc' = "called"
    /\ UNCHANGED <<entities, frames, k, elapsed, input, built, pre, counted, steps, clock>>

\* a first call of Planet::new_stable_orbit
PlanetOrbitFirst ==
    /\ pc = "start"
    /\ \E other \in OrbitParents, r \in LeafRecords, period \in Periods, id \in IdDraws :
        calls' = <<PlanetOrbitCall(other, r, period, id)>>
    /\ pc' = "called"
    /\ UNCHANGED <<entities, frames, k, elapsed, input, built, pre, counted, steps, clock>>

\* the same initializer called again on the arguments of the first call
OrbitAgain ==
    /\ pc = "called"
    /\ Len(calls) = 1
    /\ LET c == calls[1]
       IN  IF c.fn = "Body::new_stable_orbit"
           THEN \E period \in Periods :
                    calls' = Append(calls,
                        [c EXCEPT !.drawn = period,
                                  !.out = BodyNewStableOrbit(c.args[1], c.args[2], period)])
           ELSE \E id \in IdDraws :
                    calls' = Append(calls,
                        [c EXCEPT !.drawn = id,
                                  !.out = PlanetNewStableOrbit(c.args[1], c.args[2], c.args[3],
                                                               c.args[4], c.args[5], id)])
    /\ UNCHANGED <<pc, entities, frames, k, elapsed, input, built, pre, counted, steps, clock>>

NextOrbit ==
    \/ BodyOrbitFirst
    \/ PlanetOrbitFirst
    \/ OrbitAgain

SpecOrbit == Init /\ [][NextOrbit]_vars

-----------------------------------------------------------------------------
(* Claims *)

Constructed == pc \in {"idle", "tick", "set"}
Bodies == 1 .. Len(entities)
NumStars == Len(input.stars)

\* the position and velocity of a body or frame hold no NaN and no Inf
MotionFinite(x) == VFinite(x.position) /\ VFinite(x.velocity)

\* number of entries of the sequence q equal to x
Occurrences(q, x) == Cardinality({t \in 1 .. Len(q) : q[t] = x})

\* C1: in a World built by new_from_json no two bodies have the same id, and
\* every body keeps the id it was constructed with.
C1_UniqueStableIds ==
    Constructed =>
        /\ \A i, j \in Bodies : i # j => entities[i].id # entities[j].id
        /\ \A i \in Bodies : entities[i].id = built[i].id

\* C2: every tick of an Orbiting body evaluated in the step in progress
\* accumulated exactly one contribution from each other body and none from
\* the body itself.
C2_EveryOtherBodyOnce ==
    \A i \in 1 .. Len(counted) :
        entities[i].kind = "Body" =>
            \A j \in Bodies : Occurrences(counted[i], j) = (IF j = i THEN 0 ELSE 1)

\* C3: while ticks are being evaluated no commit of the step has been applied,
\* no commit is applied before the frame of every body has been collected, and
\* every frame collected was computed from the pre-step entities.
C3_TickBeforeSet ==
    /\ pc = "tick" => entities = pre /\ k = 0
    /\ pc = "set" => Len(frames) = Len(entities)
    /\ pc \in {"tick", "set"} =>
        \A j \in 1 .. Len(frames) : frames[j] = Tick(pre[j], Others(pre, j), elapsed)

C3_Witness ==
    /\ pc = "set"
    /\ Len(entities) >= 3
    /\ k >= 2
    /\ entities # pre

\* the entities in the order given by the permutation p of their indices
RECURSIVE PermutedFrom(_, _, _)
PermutedFrom(es, p, i) ==
    IF i > Len(es) THEN <<>> ELSE <<es[p[i]]>> \o PermutedFrom(es, p, i + 1)
Permuted(es, p) == PermutedFrom(es, p, 1)
IndexPermutations(n) == {p \in [1 .. n -> 1 .. n] : \A a, b \in 1 .. n : a # b => p[a] # p[b]}

C5_StarFixed ==
    Constructed =>
        \A i \in 1 .. NumStars :
            /\ entities[i].position = built[i].position
            /\ entities[i].velocity = built[i].velocity

C5_Witness ==
    /\ pc = "idle"
    /\ steps = MaxSteps
    /\ clock > MaxSteps
    /\ NumStars >= 1
    /\ \E j \in Bodies : entities[j].position # built[j].position

\* C6: every field of a body other than position and velocity has its value
\* of construction; the tick phase leaves every body as it was; a set leaves
\* every body other than its own as it was.
C6_OnlyMotionChanges ==
    Constructed =>
        /\ Len(entities) = Len(built)
        /\ \A i \in Bodies :
            [entities[i] EXCEPT !.position = built[i].position,
                                !.velocity = built[i].velocity] = built[i]
        /\ pc = "tick" => entities = pre
        /\ pc = "set" => \A j \in (k + 1) .. Len(entities) : entities[j] = pre[j]

C6_Witness ==
    /\ pc = "set"
    /\ steps = MaxSteps
    /\ k >= 1
    /\ entities[k].kind = "Body"
    /\ entities[k].position # built[k].position
    /\ entities[k].velocity # built[k].velocity
    /\ k < Len(entities)

\* C7: every frame computed and every position and velocity committed is
\* finite, also when two bodies are at the same position.
C7_AlwaysFinite ==
    /\ \A j \in 1 .. Len(frames) : MotionFinite(frames[j])
    /\ \A i \in Bodies : MotionFinite(entities[i])


\* C8 as stated: in a World of at most one body every body is at the position
\* it was constructed at.
C8_PositionNeverChanges ==
    Constructed =>
        /\ Len(entities) <= 1
        /\ \A i \in Bodies : entities[i].position = built[i].position

\* C8 as amended: a World of at most one body steps without producing an
\* undefined value; a lone Star stays at the position it was constructed at; a
\* lone Body keeps the velocity it was constructed with, and between steps its
\* position is the constructed position plus that velocity times the dt
\* elapsed so far.
C8_LoneBodyDrifts ==
    Constructed =>
        /\ Len(entities) <= 1
        /\ \A j \in 1 .. Len(frames) : MotionFinite(frames[j])
        /\ \A i \in Bodies :
            IF entities[i].kind = "Star"
            THEN entities[i].position = built[i].position
            ELSE /\ MotionFinite(entities[i])
                 /\ entities[i].velocity = built[i].velocity
                 /\ pc = "idle" =>
                        entities[i].position =
                            VAdd(built[i].position, VScale(Fin(clock), built[i].velocity))

C8_Witness ==
    /\ pc = "idle"
    /\ steps = MaxSteps
    /\ Len(entities) = 1
    /\ entities[1].kind = "Body"
    /\ entities[1].position # built[1].position
    /\ Len(counted) = 1 /\ counted[1] = <<>>

\* C9: two calls of an orbit initializer on identical arguments return
\* identical bodies.
C9_SameArgumentsSameBody ==
    \A a, b \in 1 .. Len(calls) :
        (calls[a].fn = calls[b].fn /\ calls[a].args = calls[b].args) =>
            calls[a].out = calls[b].out

\* the index in entities of the planet that the body of call c belongs to
PlanetIndex(c) ==
    NumStars + (CHOOSE t \in 1 .. Len(calls) : calls[t].pn = c.pn /\ calls[t].cn = 0)

\* C10: every child is constructed at its planet's position plus the child's
\* orbit offset, with the planet's velocity plus the child's orbital velocity
\* around the planet, the planet's velocity being the first star's velocity
\* plus the planet's orbital velocity around that star.
C10_ChildInheritsPlanetVelocity ==
    Constructed =>
        \A t \in 1 .. Len(calls) :
            calls[t].cn > 0 =>
                LET child == built[NumStars + t]
                    planet == built[PlanetIndex(calls[t])]
                    planet_call == calls[PlanetIndex(calls[t]) - NumStars]
                    star == built[1]
                IN  /\ child.position =
                            VAdd(planet.position, OrbitVec(calls[t].args[2], calls[t].drawn))
                    /\ child.velocity =
                            VAdd(planet.velocity,
                                 OrbitVelocity(PhysicsData(planet), calls[t].args[2],
                                               child.position))
                    /\ planet.velocity =
                            VAdd(star.velocity,
                                 OrbitVelocity(PhysicsData(star), planet_call.args[2],
                                               planet.position))

C10_Witness ==
    /\ pc = "idle"
    /\ \E t \in 1 .. Len(calls) :
        /\ calls[t].cn > 0
        /\ built[PlanetIndex(calls[t])].velocity # Vec(0, 0)
        /\ built[NumStars + t].velocity # built[PlanetIndex(calls[t])].velocity
        /\ OrbitVelocity(PhysicsData(built[PlanetIndex(calls[t])]), calls[t].args[2],
                         built[NumStars + t].position) # built[NumStars + t].velocity

\* Body::get_offsets: world.entities.get(self.parent_id), the position in the
\* entities Vec counted from 0; 0 stands for None, on which unwrap() panics
ParentLookup(es, b) ==
    IF b.parent_id + 1 <= Len(es) THEN b.parent_id + 1 ELSE 0

\* the index in entities of the body whose physics_data() was handed to
\* Body::new_stable_orbit by call t: the first star for a planet, the planet
\* for a child
ParentPassed(t) ==
    IF calls[t].cn = 0 THEN 1 ELSE PlanetIndex(calls[t])

\* C11: in a World built by World::new_from_json, looking up the parent_id of
\* every Orbiting body the way Body::get_offsets does yields the body whose
\* motion was passed to Body::new_stable_orbit when it was constructed, and
\* never the body itself, a sibling or nothing.
C11_ParentLookupYieldsParent ==
    Constructed =>
        \A t \in 1 .. Len(calls) :
            LET b == built[NumStars + t]
                found == ParentLookup(built, b)
            IN  /\ found # 0
                /\ found # NumStars + t
                /\ found = ParentPassed(t)
                /\ PhysicsData(built[found]) = calls[t].args[1]

\* C12: World::new_from_json on an input that does not parse, on a record
\* missing a required field, or on an input with no star record aborts
\* (Err from from_str, or the panic of unwrap() on the missing first star):
\* no World is returned and no step is ever run.
C12_BadInputAborts ==
    (pc # "start" /\ (~input.ok \/ Len(input.stars) = 0)) =>
        /\ ~input.ok => pc = "err"
        /\ input.ok => pc = "panic"
        /\ entities = <<>> /\ built = <<>> /\ calls = <<>>
        /\ steps = 0 /\ clock = 0 /\ frames = <<>>

C12_Witness ==
    /\ pc = "panic"
    /\ input.ok
    /\ Len(input.stars) = 0
    /\ Len(input.planets) > 0
    /\ entities = <<>>

\* the map closure of the apply loop has run for entity j in the current step
Committed(j) == pc = "idle" \/ (pc = "set" /\ j <= k)

\* C13: for a Body with pre-step position p and velocity v, accumulated
\* acceleration a and step dt, tick returns the Frame with velocity v + a*dt
\* and position p + v*dt, the position moved by the pre-step velocity; once
\* the apply loop has reached the body it holds exactly that Frame.
C13_ExplicitEulerStep ==
    \A j \in 1 .. Len(frames) :
        pre[j].kind = "Body" =>
            LET p == pre[j].position
                v == pre[j].velocity
                a == Accumulate(pre[j], Others(pre, j), 1, Vec(0, 0))
            IN  /\ frames[j].velocity = VAdd(v, VScale(elapsed, a))
                /\ frames[j].position = VAdd(p, VScale(elapsed, v))
                /\ Committed(j) =>
                        /\ entities[j].velocity = frames[j].velocity
                        /\ entities[j].position = frames[j].position

C13_Witness ==
    /\ pc = "idle"
    /\ steps > 0
    /\ \E j \in 1 .. Len(frames) :
        /\ pre[j].kind = "Body"
        /\ MotionFinite(frames[j])
        /\ frames[j].velocity # pre[j].velocity
        /\ frames[j].position # pre[j].position
        /\ frames[j].position #
                VAdd(pre[j].position, VScale(elapsed, frames[j].velocity))
        /\ entities[j].position = frames[j].position
        /\ entities[j].velocity = frames[j].velocity

Dot(a, b) == FAdd(FMul(a[1], b[1]), FMul(a[2], b[2]))

\* the body returned by call c lies at distance height from the parent it was
\* given and moves, relative to that parent, at right angles to the radius
\* vector with speed sqrt(G * (parent mass + child mass) / |radius vector|);
\* the distance and the speed are compared by their squares
OrbitIsCircular(c) ==
    LET body_fn == c.fn = "Body::new_stable_orbit"
        parent == c.args[1]
        height == IF body_fn THEN c.args[2].height ELSE c.args[2]
        mass == IF body_fn THEN c.args[2].mass ELSE c.args[4]
        r_vec == VSub(parent.position, c.out.position)
        v_rel == VSub(c.out.velocity, parent.velocity)
        mu == FMul(Fin(G), FAdd(parent.mass, Fin(mass)))
        speed == FSqrt(FDiv(mu, Norm(r_vec)))
    IN  /\ NormSquared(r_vec) = Fin(height * height)
        /\ Dot(v_rel, r_vec) = Fin(0)
        /\ NormSquared(v_rel) = FMul(speed, speed)

\* C14: for every phase value the orbit initializer places the child at
\* distance exactly height from the parent's position and gives it a velocity
\* relative to the parent that is perpendicular to the child-to-parent radius
\* vector, of magnitude sqrt(G * (parent mass + child mass) / |radius vector|).
C14_InitializedOnCircularOrbit ==
    \A t \in 1 .. Len(calls) : OrbitIsCircular(calls[t])

\* the number of BodyParams records in the sequence rs, at every depth
RECURSIVE CountRecords(_)
CountRecords(rs) ==
    IF rs = <<>> THEN 0
    ELSE 1 + CountRecords(Head(rs).children) + CountRecords(Tail(rs))

\* C15: World::new_from_json yields exactly one body per record of the input
\* at every nesting depth, children of children and children of stars
\* included: the star records become Stars, every other record a Body.
C15_OneBodyPerRecord ==
    Constructed =>
        /\ Len(built) = CountRecords(input.stars) + CountRecords(input.planets)
        /\ \A i \in 1 .. Len(built) :
            built[i].kind = (IF i <= NumStars THEN "Star" ELSE "Body")

=============================================================================
